---- MODULE Spec2Model ----
(***************************************************************************)
(* Mars rover navigation core (rover.py): Direction classes, Grid, Rover   *)
(* and the Command dispatch layer, driven one command at a time.           *)
(*                                                                         *)
(* Python values: a position is the pair <<x, y>>, a Direction instance is *)
(* the string its __str__ returns, True / False / None are the strings     *)
(* "True" / "False" / "None".                                              *)
(***************************************************************************)
EXTENDS Integers, Sequences, FiniteSets, TLC

VARIABLES config, raised, grid, start, x, y, direction, path_history,
          command_count, returned, console, executed

vars == <<config, raised, grid, start, x, y, direction, path_history,
          command_count, returned, console, executed>>

\* Longest command sequence the driver feeds to the rover.
MaxCommands == 7

(***************************************************************************)
(* Direction classes                                                       *)
(***************************************************************************)
Directions == {"North", "East", "South", "West"}

\* Variant: East advances two cells.
dir_move_forward_east_two(d, px, py) ==
    CASE d = "North" -> <<px, py + 1>>
      [] d = "East"  -> <<px + 2, py>>
      [] d = "South" -> <<px, py - 1>>
      [] d = "West"  -> <<px - 1, py>>

\* Variant: North decreases Y.
dir_move_forward_north_down(d, px, py) ==
    CASE d = "North" -> <<px, py - 1>>
      [] d = "East"  -> <<px + 1, py>>
      [] d = "South" -> <<px, py - 1>>
      [] d = "West"  -> <<px - 1, py>>

dir_move_forward(d, px, py) ==
    CASE d = "North" -> <<px, py + 1>>
      [] d = "East"  -> <<px + 1, py>>
      [] d = "South" -> <<px, py - 1>>
      [] d = "West"  -> <<px - 1, py>>

\* Variant: East turns left to South.
dir_turn_left_east_south(d) ==
    CASE d = "North" -> "West"
      [] d = "East"  -> "South"
      [] d = "South" -> "East"
      [] d = "West"  -> "South"

\* Variant: West turns left back to North.
dir_turn_left_two_cycle(d) ==
    CASE d = "North" -> "West"
      [] d = "East"  -> "North"
      [] d = "South" -> "East"
      [] d = "West"  -> "North"

\* Variant: turn_left returns what turn_right should.
dir_turn_left_clockwise(d) ==
    CASE d = "North" -> "East"
      [] d = "East"  -> "South"
      [] d = "South" -> "West"
      [] d = "West"  -> "North"

dir_turn_left(d) ==
    CASE d = "North" -> "West"
      [] d = "East"  -> "North"
      [] d = "South" -> "East"
      [] d = "West"  -> "South"

\* Variant: North turns right to West.
dir_turn_right_mirrored(d) ==
    CASE d = "North" -> "West"
      [] d = "East"  -> "South"
      [] d = "South" -> "West"
      [] d = "West"  -> "North"

dir_turn_right(d) ==
    CASE d = "North" -> "East"
      [] d = "East"  -> "South"
      [] d = "South" -> "West"
      [] d = "West"  -> "North"

(***************************************************************************)
(* Grid                                                                    *)
(***************************************************************************)
Grid(width, height, obstacles) ==
    [width |-> width, height |-> height, obstacles |-> obstacles]

\* Variant: the lookup key is the list [x, y], which equals no tuple.
has_obstacle_list_key(g, px, py) == <<px, py>> \in {}

has_obstacle(g, px, py) == <<px, py>> \in g.obstacles

\* Variant: the lower bounds are not checked.
is_valid_position_no_lower(g, px, py) ==
    px < g.width /\ py < g.height

\* Variant: the upper bounds are inclusive.
is_valid_position_inclusive(g, px, py) ==
    (0 <= px /\ px <= g.width) /\ (0 <= py /\ py <= g.height)

is_valid_position(g, px, py) ==
    (0 <= px /\ px < g.width) /\ (0 <= py /\ py < g.height)

(***************************************************************************)
(* Missions: the grid and the start pose handed to Rover(...)              *)
(***************************************************************************)
Pose(px, py, d) == [x |-> px, y |-> py, direction |-> d]

\* demo.py: Grid(10, 10, obstacles=[(2, 2), (3, 5), (7, 8)]), Rover(0, 0, North(), grid)
DemoGrid  == Grid(10, 10, {<<2, 2>>, <<3, 5>>, <<7, 8>>})
DemoStart == Pose(0, 0, "North")

\* test_rover.py: Grid(10, 10, obstacles=[(5, 6)]), Rover(5, 5, North(), grid)
ObstacleGrid  == Grid(10, 10, {<<5, 6>>})
ObstacleStart == Pose(5, 5, "North")

\* test_rover.py: Grid(10, 10), Rover(0, 0, South(), grid)
OpenGrid      == Grid(10, 10, {})
BoundaryStart == Pose(0, 0, "South")

\* test_rover.py: Grid(10, 10), Rover(5, 5, North(), grid)
SquareStart == Pose(5, 5, "North")

\* A small grid with one obstacle inside and one outside its bounds; the
\* rover may be constructed anywhere on it or around it (the constructor
\* validates nothing).
SmallGrid   == Grid(3, 2, {<<1, 1>>, <<3, 0>>})
SmallStarts == {Pose(px, py, d) : px \in -1..3, py \in -1..2, d \in Directions}

Missions ==
    {<<DemoGrid, DemoStart>>, <<ObstacleGrid, ObstacleStart>>,
     <<OpenGrid, BoundaryStart>>, <<OpenGrid, SquareStart>>}
    \cup {<<SmallGrid, s>> : s \in SmallStarts}

(***************************************************************************)
(* Rover                                                                   *)
(***************************************************************************)
BoundaryWarning == "Cannot move - grid boundary!"
ObstacleWarning == "Cannot move - obstacle detected!"

\* Variant: the history is not seeded with the initial position.
RoverInit_empty_history(px, py, d, g) ==
    /\ x = px
    /\ y = py
    /\ direction = d
    /\ grid = g
    /\ path_history = <<>>
    /\ command_count = 0

\* Rover.__init__
RoverInit(px, py, d, g) ==
    /\ x = px
    /\ y = py
    /\ direction = d
    /\ grid = g
    /\ path_history = << <<px, py>> >>
    /\ command_count = 0

\* Variant: the obstacle check comes before the bounds check.
move_forward_obstacle_first ==
    LET new == dir_move_forward(direction, x, y)
        new_x == new[1]
        new_y == new[2]
    IN  IF has_obstacle(grid, new_x, new_y)
        THEN /\ console' = Append(console, ObstacleWarning)
             /\ returned' = "False"
             /\ UNCHANGED <<x, y, path_history, command_count>>
        ELSE IF ~is_valid_position(grid, new_x, new_y)
        THEN /\ console' = Append(console, BoundaryWarning)
             /\ returned' = "False"
             /\ UNCHANGED <<x, y, path_history, command_count>>
        ELSE /\ x' = new_x
             /\ y' = new_y
             /\ path_history' = Append(path_history, <<new_x, new_y>>)
             /\ command_count' = command_count + 1
             /\ returned' = "True"
             /\ UNCHANGED console

\* Variant: the obstacle check warns but does not return.
move_forward_into_obstacle ==
    LET new == dir_move_forward(direction, x, y)
        new_x == new[1]
        new_y == new[2]
    IN  IF ~is_valid_position(grid, new_x, new_y)
        THEN /\ console' = Append(console, BoundaryWarning)
             /\ returned' = "False"
             /\ UNCHANGED <<x, y, path_history, command_count>>
        ELSE /\ console' = IF has_obstacle(grid, new_x, new_y)
                           THEN Append(console, ObstacleWarning)
                           ELSE console
             /\ x' = new_x
             /\ y' = new_y
             /\ path_history' = Append(path_history, <<new_x, new_y>>)
             /\ command_count' = command_count + 1
             /\ returned' = "True"

\* Variant: the position is assigned before the checks.
move_forward_assign_first ==
    LET new == dir_move_forward(direction, x, y)
        new_x == new[1]
        new_y == new[2]
    IN  /\ x' = new_x
        /\ y' = new_y
        /\ IF ~is_valid_position(grid, new_x, new_y)
           THEN /\ console' = Append(console, BoundaryWarning)
                /\ returned' = "False"
                /\ UNCHANGED <<path_history, command_count>>
           ELSE IF has_obstacle(grid, new_x, new_y)
           THEN /\ console' = Append(console, ObstacleWarning)
                /\ returned' = "False"
                /\ UNCHANGED <<path_history, command_count>>
           ELSE /\ path_history' = Append(path_history, <<new_x, new_y>>)
                /\ command_count' = command_count + 1
                /\ returned' = "True"
                /\ UNCHANGED console

\* Variant: a successful move does not record the new cell.
move_forward_no_append ==
    LET new == dir_move_forward(direction, x, y)
        new_x == new[1]
        new_y == new[2]
    IN  IF ~is_valid_position(grid, new_x, new_y)
        THEN /\ console' = Append(console, BoundaryWarning)
             /\ returned' = "False"
             /\ UNCHANGED <<x, y, path_history, command_count>>
        ELSE IF has_obstacle(grid, new_x, new_y)
        THEN /\ console' = Append(console, ObstacleWarning)
             /\ returned' = "False"
             /\ UNCHANGED <<x, y, path_history, command_count>>
        ELSE /\ x' = new_x
             /\ y' = new_y
             /\ command_count' = command_count + 1
             /\ returned' = "True"
             /\ UNCHANGED <<path_history, console>>

\* Variant: a successful move does not advance the counter.
move_forward_uncounted ==
    LET new == dir_move_forward(direction, x, y)
        new_x == new[1]
        new_y == new[2]
    IN  IF ~is_valid_position(grid, new_x, new_y)
        THEN /\ console' = Append(console, BoundaryWarning)
             /\ returned' = "False"
             /\ UNCHANGED <<x, y, path_history, command_count>>
        ELSE IF has_obstacle(grid, new_x, new_y)
        THEN /\ console' = Append(console, ObstacleWarning)
             /\ returned' = "False"
             /\ UNCHANGED <<x, y, path_history, command_count>>
        ELSE /\ x' = new_x
             /\ y' = new_y
             /\ path_history' = Append(path_history, <<new_x, new_y>>)
             /\ returned' = "True"
             /\ UNCHANGED <<command_count, console>>

\* Variant: the history is reset to the new cell instead of extended.
move_forward_overwrite ==
    LET new == dir_move_forward(direction, x, y)
        new_x == new[1]
        new_y == new[2]
    IN  IF ~is_valid_position(grid, new_x, new_y)
        THEN /\ console' = Append(console, BoundaryWarning)
             /\ returned' = "False"
             /\ UNCHANGED <<x, y, path_history, command_count>>
        ELSE IF has_obstacle(grid, new_x, new_y)
        THEN /\ console' = Append(console, ObstacleWarning)
             /\ returned' = "False"
             /\ UNCHANGED <<x, y, path_history, command_count>>
        ELSE /\ x' = new_x
             /\ y' = new_y
             /\ path_history' = << <<new_x, new_y>> >>
             /\ command_count' = command_count + 1
             /\ returned' = "True"
             /\ UNCHANGED console

\* Rover.move_forward
move_forward ==
    LET new == dir_move_forward(direction, x, y)
        new_x == new[1]
        new_y == new[2]
    IN  IF ~is_valid_position(grid, new_x, new_y)
        THEN /\ console' = Append(console, BoundaryWarning)
             /\ returned' = "False"
             /\ UNCHANGED <<x, y, path_history, command_count>>
        ELSE IF has_obstacle(grid, new_x, new_y)
        THEN /\ console' = Append(console, ObstacleWarning)
             /\ returned' = "False"
             /\ UNCHANGED <<x, y, path_history, command_count>>
        ELSE /\ x' = new_x
             /\ y' = new_y
             /\ path_history' = Append(path_history, <<new_x, new_y>>)
             /\ command_count' = command_count + 1
             /\ returned' = "True"
             /\ UNCHANGED console

\* Variant: turn_left calls the direction's turn_right.
turn_left_wrong_way ==
    /\ direction' = dir_turn_right(direction)
    /\ command_count' = command_count + 1
    /\ returned' = "None"

\* Rover.turn_left
turn_left ==
    /\ direction' = dir_turn_left(direction)
    /\ command_count' = command_count + 1
    /\ returned' = "None"

\* Variant: turn_right turns twice.
turn_right_about_face ==
    /\ direction' = dir_turn_right(dir_turn_right(direction))
    /\ command_count' = command_count + 1
    /\ returned' = "None"

\* Variant: turn_right does not advance the counter.
turn_right_uncounted ==
    /\ direction' = dir_turn_right(direction)
    /\ UNCHANGED command_count
    /\ returned' = "None"

\* Rover.turn_right
turn_right ==
    /\ direction' = dir_turn_right(direction)
    /\ command_count' = command_count + 1
    /\ returned' = "None"

SeqToSet(s) == {s[i] : i \in 1..Len(s)}

\* Variant: cells_visited is the length of the path.
get_status_path_length ==
    [position |-> [x |-> x, y |-> y],
     direction |-> direction,
     commands_executed |-> command_count,
     cells_visited |-> Len(path_history)]

\* Rover.get_status
get_status ==
    [position |-> [x |-> x, y |-> y],
     direction |-> direction,
     commands_executed |-> command_count,
     cells_visited |-> Cardinality(SeqToSet(path_history))]

(***************************************************************************)
(* Command classes and the driver loop                                     *)
(***************************************************************************)
\* One entry per command the driver has executed: the command letter, what
\* the rover operation returned and how many warnings it printed.
Executed(c) ==
    [cmd |-> c, result |-> returned', warnings |-> Len(console') - Len(console)]

\* MoveForward.execute
MoveForward ==
    /\ Len(executed) < MaxCommands
    /\ move_forward
    /\ executed' = Append(executed, Executed("M"))
    /\ UNCHANGED <<config, raised, grid, start, direction>>

\* Variant: TurnLeft.execute calls rover.turn_right().
TurnLeft_executes_right ==
    /\ Len(executed) < MaxCommands
    /\ turn_right
    /\ UNCHANGED console
    /\ executed' = Append(executed, Executed("L"))
    /\ UNCHANGED <<config, raised, grid, start, x, y, path_history>>

\* TurnLeft.execute
TurnLeft ==
    /\ Len(executed) < MaxCommands
    /\ turn_left
    /\ UNCHANGED console
    /\ executed' = Append(executed, Executed("L"))
    /\ UNCHANGED <<config, raised, grid, start, x, y, path_history>>

\* TurnRight.execute
TurnRight ==
    /\ Len(executed) < MaxCommands
    /\ turn_right
    /\ UNCHANGED console
    /\ executed' = Append(executed, Executed("R"))
    /\ UNCHANGED <<config, raised, grid, start, x, y, path_history>>

\* Rover(...) called directly, as demo.py and the tests do: no configuration
\* is read and nothing is raised.
Init ==
    /\ \E m \in Missions :
          /\ start = m[2]
          /\ RoverInit(m[2].x, m[2].y, m[2].direction, m[1])
    /\ config = "None"
    /\ raised = "None"
    /\ returned = "None"
    /\ console = <<>>
    /\ executed = <<>>

Next == MoveForward \/ TurnLeft \/ TurnRight

Spec == Init /\ [][Next]_vars

(***************************************************************************)
(* Construction from a configuration (initialize_rover, then main's loop)  *)
(***************************************************************************)
\* The start_direction key is absent from the configuration.
Missing == "<missing>"

direction_map == [N |-> "North", E |-> "East", S |-> "South", W |-> "West"]

\* Heading tokens a configuration file may carry: the four recognized
\* letters, no token at all, and tokens the mapping does not know.
Tokens == {"N", "E", "S", "W", Missing, "X", "n", "North"}

Configs ==
    [width : {SmallGrid.width}, height : {SmallGrid.height},
     obstacles : {SmallGrid.obstacles},
     start_x : 0..1, start_y : 0..1, start_direction : Tokens]

\* rover_config.get("start_direction", "N")
start_direction(cfg) ==
    IF cfg.start_direction = Missing THEN "N" ELSE cfg.start_direction

\* Variant: the lookup falls back to North, direction_map.get(token, North()).
initialize_rover_defaulting(cfg) ==
    LET token == start_direction(cfg)
        d == IF token \in DOMAIN direction_map THEN direction_map[token] ELSE "North"
    IN  /\ RoverInit(cfg.start_x, cfg.start_y, d,
                     Grid(cfg.width, cfg.height, cfg.obstacles))
        /\ start = Pose(cfg.start_x, cfg.start_y, d)
        /\ raised = "None"

\* initialize_rover: direction_map[token] raises KeyError for a token that is
\* not a key, before Rover(...) is reached; no rover is returned then and
\* every rover variable is None.
initialize_rover(cfg) ==
    LET token == start_direction(cfg)
    IN  IF token \in DOMAIN direction_map
        THEN /\ RoverInit(cfg.start_x, cfg.start_y, direction_map[token],
                          Grid(cfg.width, cfg.height, cfg.obstacles))
             /\ start = Pose(cfg.start_x, cfg.start_y, direction_map[token])
             /\ raised = "None"
        ELSE /\ raised = "KeyError"
             /\ x = "None"
             /\ y = "None"
             /\ direction = "None"
             /\ grid = "None"
             /\ path_history = "None"
             /\ command_count = "None"
             /\ start = "None"

InitConfig ==
    /\ \E cfg \in Configs :
          /\ config = cfg
          /\ initialize_rover(cfg)
    /\ returned = "None"
    /\ console = <<>>
    /\ executed = <<>>

\* main: the command loop runs only when initialize_rover returned a rover.
NextConfig ==
    \/ (raised = "None" /\ MoveForward)
    \/ (raised = "None" /\ TurnLeft)
    \/ (raised = "None" /\ TurnRight)

SpecConfig == InitConfig /\ [][NextConfig]_vars

(***************************************************************************)
(* Vocabulary of the properties                                            *)
(***************************************************************************)
Last == executed[Len(executed)]

Commands == [i \in 1..Len(executed) |-> executed[i].cmd]

\* This step is the driver executing command c.
Dispatched(c) ==
    /\ Len(executed') = Len(executed) + 1
    /\ executed'[Len(executed')].cmd = c

\* The cell a MoveForward would enter: position + forward delta of the heading.
Candidate == dir_move_forward(direction, x, y)

InBounds(p) ==
    /\ 0 <= p[1] /\ p[1] < grid.width
    /\ 0 <= p[2] /\ p[2] < grid.height

Occupied(p) == p \in grid.obstacles

CandidateBlocked == ~InBounds(Candidate) \/ Occupied(Candidate)

unique_cells_visited == get_status.cells_visited

IsPrefix(s, t) == Len(s) <= Len(t) /\ SubSeq(t, 1, Len(s)) = s

NoneRejected == \A i \in 1..Len(executed) : executed[i].result # "False"

\* C1: a rejected MoveForward (candidate out of bounds or on an obstacle)
\* increments command_count by exactly 1.
C1_RejectedMoveCounted ==
    [][(Dispatched("M") /\ CandidateBlocked)
          => command_count' = command_count + 1]_vars

\* C2: a MoveForward whose candidate cell is out of bounds or holds an
\* obstacle returns false and leaves position, heading and visited as they
\* were.
C2_RejectedMovePreservesState ==
    [][(Dispatched("M") /\ CandidateBlocked)
          => /\ returned' = "False"
             /\ UNCHANGED <<x, y, direction, path_history>>]_vars

\* C2 witness: the boundary scenario, rover at (0,0) facing South on the open
\* 10x10 grid, after its one rejected move.
C2_Witness ==
    /\ grid = OpenGrid /\ start = BoundaryStart
    /\ Commands = <<"M">>
    /\ Last.result = "False"
    /\ <<x, y>> = <<0, 0>>

\* C3: a MoveForward whose candidate cell is in bounds and obstacle-free
\* returns true, moves to the candidate, appends it to visited, increments
\* command_count by 1, and raises unique_cells_visited by 1 exactly when the
\* destination was not visited before.
C3_SuccessfulMove ==
    [][(Dispatched("M") /\ ~CandidateBlocked)
          => /\ returned' = "True"
             /\ <<x', y'>> = Candidate
             /\ path_history' = Append(path_history, Candidate)
             /\ command_count' = command_count + 1
             /\ unique_cells_visited' = unique_cells_visited +
                   (IF Candidate \in SeqToSet(path_history) THEN 0 ELSE 1)]_vars

\* C3 witness: a successful move has just re-entered a cell visited earlier.
C3_Witness ==
    /\ Len(executed) > 0
    /\ Last.cmd = "M" /\ Last.result = "True"
    /\ <<x, y>> \in SeqToSet(SubSeq(path_history, 1, Len(path_history) - 1))
    /\ unique_cells_visited < Len(path_history)

\* C4: a rover constructed on an in-bounds, obstacle-free cell is on an
\* in-bounds, obstacle-free cell after every command sequence.
C4_PositionStaysValid ==
    (InBounds(<<start.x, start.y>>) /\ ~Occupied(<<start.x, start.y>>))
        => (InBounds(<<x, y>>) /\ ~Occupied(<<x, y>>))

\* C4 witness: a validly constructed rover has moved, and its latest move
\* was rejected with an obstacle straight ahead.
C4_Witness ==
    /\ InBounds(<<start.x, start.y>>) /\ ~Occupied(<<start.x, start.y>>)
    /\ Len(path_history) > 1
    /\ Last.cmd = "M" /\ Last.result = "False"
    /\ InBounds(Candidate) /\ Occupied(Candidate)

\* C5: TurnLeft / TurnRight replace heading with heading.turn_left() /
\* heading.turn_right(), increment command_count by 1 and leave position and
\* visited unchanged.
C5_TurnsOnlyTurn ==
    [][/\ Dispatched("L") =>
             /\ direction' = dir_turn_left(direction)
             /\ command_count' = command_count + 1
             /\ UNCHANGED <<x, y, path_history>>
       /\ Dispatched("R") =>
             /\ direction' = dir_turn_right(direction)
             /\ command_count' = command_count + 1
             /\ UNCHANGED <<x, y, path_history>>]_vars

\* C5 witness: a left turn has just followed a right turn and a move.
C5_Witness ==
    /\ Len(executed) >= 3
    /\ Last.cmd = "L"
    /\ executed[Len(executed) - 1].cmd = "R"
    /\ Len(path_history) > 1

\* C6: when no MoveForward was rejected, command_count equals the number of
\* commands applied.
C6_CountEqualsApplied ==
    NoneRejected => command_count = Len(executed)

\* C6 witness: move, turn left, turn right from (5,5) on the open grid.
C6_Witness ==
    /\ grid = OpenGrid /\ start = SquareStart
    /\ Commands = <<"M", "L", "R">>
    /\ NoneRejected
    /\ command_count = 3

\* C7: directly after a rejected MoveForward, another MoveForward is
\* rejected too: it returns false and does not change position.
C7_RejectionIdempotent ==
    [][(/\ Len(executed) > 0
        /\ Last.cmd = "M" /\ Last.result = "False"
        /\ Dispatched("M"))
          => /\ returned' = "False"
             /\ UNCHANGED <<x, y>>]_vars

\* C7 witness: three MoveForward in a row were rejected.
C7_Witness ==
    /\ Len(executed) >= 3
    /\ \A i \in (Len(executed) - 2)..Len(executed) :
          executed[i].cmd = "M" /\ executed[i].result = "False"

\* C8: unique_cells_visited is at most command_count + 1 in every state, and
\* no command makes it smaller.
C8_UniqueCellsBounded ==
    /\ [](unique_cells_visited <= command_count + 1)
    /\ [][unique_cells_visited' >= unique_cells_visited]_vars

\* C8 witness: at least three distinct cells were visited and a later move
\* revisited one of them.
C8_Witness ==
    /\ command_count >= 3
    /\ unique_cells_visited >= 3
    /\ unique_cells_visited < Len(path_history)

\* C9: visited starts as [initial position] and every command leaves the
\* old visited as a prefix of the new one.
C9_VisitedAppendOnly ==
    /\ path_history = << <<x, y>> >>
    /\ [][IsPrefix(path_history, path_history')]_vars

\* C9 witness: the history has grown twice and a rejected move followed.
C9_Witness ==
    /\ Len(path_history) >= 3
    /\ path_history[1] = <<start.x, start.y>>
    /\ Last.cmd = "M" /\ Last.result = "False"

DemoCommands == <<"M", "M", "R", "M", "M", "L", "M">>

DemoDone == grid = DemoGrid /\ start = DemoStart /\ Commands = DemoCommands

SquareCommands == <<"M", "R", "M", "R", "M", "R", "M">>

SquareDone == grid = OpenGrid /\ start = SquareStart /\ Commands = SquareCommands

\* C11: the square path from (5,5) facing North on the open 10x10 grid ends
\* at (5,5) facing West with unique_cells_visited = 4.
C11_SquarePath ==
    SquareDone =>
        /\ <<x, y>> = <<5, 5>>
        /\ direction = "West"
        /\ unique_cells_visited = 4

\* C11 witness: the square path has run to its end, five cells on the path.
C11_Witness == SquareDone /\ Len(path_history) = 5 /\ path_history[5] = path_history[1]

\* C12: for the rover's heading h, turn_right(turn_left(h)) = h and
\* turn_left(turn_right(h)) = h; the heading takes all four values.
C12_TurnsAreInverse ==
    /\ dir_turn_right(dir_turn_left(direction)) = direction
    /\ dir_turn_left(dir_turn_right(direction)) = direction

\* C12 witness: the rover turned left and then right and faces East.
C12_Witness ==
    /\ Len(executed) >= 2
    /\ Last.cmd = "R"
    /\ executed[Len(executed) - 1].cmd = "L"
    /\ direction = "East"
    /\ direction = start.direction

Left2(d)  == dir_turn_left(dir_turn_left(d))
Left3(d)  == dir_turn_left(Left2(d))
Left4(d)  == dir_turn_left(Left3(d))
Right2(d) == dir_turn_right(dir_turn_right(d))
Right3(d) == dir_turn_right(Right2(d))
Right4(d) == dir_turn_right(Right3(d))

\* C13: for the rover's heading h, four turn_left return h, four turn_right
\* return h, and one, two or three of the same turn do not.
C13_TurnsAreFourCycles ==
    /\ Left4(direction) = direction
    /\ Right4(direction) = direction
    /\ direction \notin {dir_turn_left(direction), Left2(direction), Left3(direction)}
    /\ direction \notin {dir_turn_right(direction), Right2(direction), Right3(direction)}

\* C13 witness: four left turns in a row brought the rover back to its
\* initial heading South.
C13_Witness ==
    /\ Len(executed) = 4
    /\ \A i \in 1..4 : executed[i].cmd = "L"
    /\ start.direction = "South"
    /\ direction = "South"

\* C14: from the rover's cell (x, y) the forward step is North -> (x, y+1),
\* East -> (x+1, y), South -> (x, y-1), West -> (x-1, y).
C14_ForwardStep ==
    /\ dir_move_forward("North", x, y) = <<x, y + 1>>
    /\ dir_move_forward("East", x, y)  = <<x + 1, y>>
    /\ dir_move_forward("South", x, y) = <<x, y - 1>>
    /\ dir_move_forward("West", x, y)  = <<x - 1, y>>

\* C14 witness: the rover has just stepped West, one cell to the left of the
\* previous one.
C14_Witness ==
    /\ Len(executed) > 0
    /\ Last.cmd = "M" /\ Last.result = "True"
    /\ direction = "West"
    /\ path_history[Len(path_history) - 1] = <<x + 1, y>>

\* C15: turn_left maps North->West, West->South, South->East, East->North
\* and turn_right maps North->East, East->South, South->West, West->North.
C15_TurnTables ==
    /\ dir_turn_left(direction) =
          (CASE direction = "North" -> "West"
             [] direction = "West"  -> "South"
             [] direction = "South" -> "East"
             [] direction = "East"  -> "North")
    /\ dir_turn_right(direction) =
          (CASE direction = "North" -> "East"
             [] direction = "East"  -> "South"
             [] direction = "South" -> "West"
             [] direction = "West"  -> "North")

\* C15 witness: a rover constructed facing North has turned left once and
\* faces West.
C15_Witness ==
    /\ Commands = <<"L">>
    /\ start.direction = "North"
    /\ direction = "West"

\* Coordinates probed around the rover and around both edges of the grid.
ProbeXs == {-1, 0, x, grid.width - 1, grid.width, grid.width + 1}
ProbeYs == {-1, 0, y, grid.height - 1, grid.height, grid.height + 1}

\* C16: is_valid_position(x, y) is true exactly when 0 <= x < width and
\* 0 <= y < height, negative coordinates and x = width, y = height included.
C16_InBoundsExact ==
    \A px \in ProbeXs, py \in ProbeYs :
        is_valid_position(grid, px, py)
            <=> (0 <= px /\ px < grid.width /\ 0 <= py /\ py < grid.height)

\* C16 witness: a move towards the column x = width was rejected at the
\* boundary.
C16_Witness ==
    /\ Len(executed) > 0
    /\ Last.cmd = "M" /\ Last.result = "False"
    /\ Candidate[1] = grid.width
    /\ ~Occupied(Candidate)

\* C17: executing a command is exactly one call of the matching rover
\* operation: the step changes the rover as move_forward / turn_left /
\* turn_right does and touches nothing else of it.
C17_ExecuteIsDirectCall ==
    [][/\ Dispatched("M") => (move_forward /\ UNCHANGED direction)
       /\ Dispatched("L") => (turn_left /\ UNCHANGED <<x, y, path_history>>)
       /\ Dispatched("R") => (turn_right /\ UNCHANGED <<x, y, path_history>>)]_vars

\* C17 witness: each of the three commands has been executed, a left turn
\* last.
C17_Witness ==
    /\ {"M", "L", "R"} \subseteq SeqToSet(Commands)
    /\ Last.cmd = "L"
    /\ direction = dir_turn_left(start.direction)

SuccessfulMoves ==
    Cardinality({i \in 1..Len(executed) :
                    executed[i].cmd = "M" /\ executed[i].result = "True"})

\* C19: the length of visited is 1 plus the number of MoveForward that
\* returned true.
C19_PathLength == Len(path_history) = 1 + SuccessfulMoves

\* C19 witness: two successful moves, a turn and a rejected move have been
\* executed.
C19_Witness ==
    /\ Len(path_history) = 3
    /\ \E i \in 1..Len(executed) : executed[i].cmd = "R"
    /\ \E i \in 1..Len(executed) :
          executed[i].cmd = "M" /\ executed[i].result = "False"

\* C20: a move out of bounds prints the boundary warning even when the cell
\* is listed as an obstacle, a move onto an in-bounds obstacle prints the
\* obstacle warning, each exactly once; a successful move or a turn prints
\* nothing.
C20_BoundsBeforeObstacles ==
    [][/\ (Dispatched("M") /\ ~InBounds(Candidate))
             => console' = Append(console, BoundaryWarning)
       /\ (Dispatched("M") /\ InBounds(Candidate) /\ Occupied(Candidate))
             => console' = Append(console, ObstacleWarning)
       /\ (Dispatched("M") /\ ~CandidateBlocked) => console' = console
       /\ (Dispatched("L") \/ Dispatched("R")) => console' = console]_vars

\* C20 witness: the rejected move was towards a cell that is out of bounds
\* and listed as an obstacle, and the boundary warning was printed.
C20_Witness ==
    /\ Len(executed) > 0
    /\ Last.cmd = "M" /\ Last.result = "False"
    /\ ~InBounds(Candidate) /\ Occupied(Candidate)
    /\ console[Len(console)] = BoundaryWarning

Recognized == {"N", "E", "S", "W"}

\* C18: a configuration whose heading token is not N, E, S or W makes the
\* construction fail with an error and leaves no rover; the heading is never
\* a default put in the token's place.
C18_UnknownHeadingFails ==
    (config.start_direction \notin Recognized \cup {Missing})
        => /\ raised = "KeyError"
           /\ direction \notin Directions
           /\ path_history = "None"
           /\ executed = <<>>

\* C18 witness: construction was attempted with the token "X" and raised.
C18_Witness ==
    /\ config.start_direction = "X"
    /\ raised = "KeyError"

\* C21: the last element of visited is the rover's current position.
C21_LastVisitedIsPosition ==
    path_history[Len(path_history)] = <<x, y>>

\* C21 witness: the rover moved, turned, and its latest move was rejected.
C21_Witness ==
    /\ Len(path_history) >= 2
    /\ Len(executed) >= 3
    /\ Last.cmd = "M" /\ Last.result = "False"
    /\ executed[Len(executed) - 1].cmd \in {"L", "R"}

Abs(n) == IF n < 0 THEN 0 - n ELSE n

\* C22: any two consecutive entries of visited are one unit step apart along
\* exactly one axis.
C22_UnitSteps ==
    \A i \in 1..(Len(path_history) - 1) :
        Abs(path_history[i + 1][1] - path_history[i][1])
          + Abs(path_history[i + 1][2] - path_history[i][2]) = 1

\* C22 witness: the path has four entries, steps along both axes, and a
\* rejected move in between.
C22_Witness ==
    /\ Len(path_history) = 4
    /\ \E i \in 1..3 : path_history[i + 1][1] # path_history[i][1]
    /\ \E i \in 1..3 : path_history[i + 1][2] # path_history[i][2]
    /\ \E i \in 1..(Len(executed) - 1) :
          executed[i].cmd = "M" /\ executed[i].result = "False"

StartValid == InBounds(<<start.x, start.y>>) /\ ~Occupied(<<start.x, start.y>>)

\* C23: whatever cell the rover was constructed on, every entry of visited
\* after the first is in bounds and obstacle-free, and once a MoveForward
\* has succeeded the position is in bounds and obstacle-free.
C23_ValidAfterFirstMove ==
    /\ \A i \in 2..Len(path_history) :
          InBounds(path_history[i]) /\ ~Occupied(path_history[i])
    /\ SuccessfulMoves > 0 => (InBounds(<<x, y>>) /\ ~Occupied(<<x, y>>))

\* C23 witness: a rover constructed on an obstacle has moved off it, and
\* its move back onto the obstacle was rejected.
C23_Witness ==
    /\ Occupied(<<start.x, start.y>>) /\ InBounds(<<start.x, start.y>>)
    /\ Len(path_history) = 2
    /\ Last.cmd = "M" /\ Last.result = "False"
    /\ Candidate = <<start.x, start.y>>

Count(c) == Cardinality({i \in 1..Len(executed) : executed[i].cmd = c})

Compass == <<"North", "East", "South", "West">>

CompassIndex(d) == CHOOSE i \in 1..4 : Compass[i] = d

\* d rotated clockwise by k quarter-turns, k >= 0.
Clockwise(d, k) == Compass[((CompassIndex(d) - 1 + k) % 4) + 1]

\* Number of TurnRight minus number of TurnLeft, modulo 4.
NetQuarterTurns == (Count("R") + 3 * Count("L")) % 4

\* C24: the heading is the initial heading rotated clockwise by (number of
\* TurnRight - number of TurnLeft) mod 4 quarter-turns, and no MoveForward
\* changes the heading.
C24_HeadingIsNetRotation ==
    /\ [](direction = Clockwise(start.direction, NetQuarterTurns))
    /\ [][Dispatched("M") => direction' = direction]_vars

\* C24 witness: two right turns, one left turn, a successful and a rejected
\* move have been executed and the heading is a quarter-turn clockwise of
\* the initial one.
C24_Witness ==
    /\ Count("R") = 2 /\ Count("L") = 1
    /\ \E i \in 1..Len(executed) :
          executed[i].cmd = "M" /\ executed[i].result = "True"
    /\ \E i \in 1..Len(executed) :
          executed[i].cmd = "M" /\ executed[i].result = "False"
    /\ direction = Clockwise(start.direction, 1)

====
